---- MODULE Spec2Model ----
(***************************************************************************)
(* Model of lb-lidarr-plex: the MusicBrainz resolver (musicbrainz_api.py), *)
(* the Plex track matcher and playlist methods (plex_api.py), the playlist *)
(* pass (listenbrainz_to_plex.py) and the daemon threads (main.py).        *)
(* Durations are counted in tenths of a second.                            *)
(***************************************************************************)
EXTENDS Integers, Sequences, FiniteSets, TLC

VARIABLES
    \* ---- resolver (musicbrainz_api.py) ----
    LOCAL_MB_MIRROR,   \* config.LOCAL_MB_MIRROR
    entry,             \* function called: "smart" | "batch" | "idle"
    recording_mbids,   \* the argument list
    batch_size,        \* the batch_size argument of get_artist_info_batch
    results,           \* the results dict being built
    r_pc,              \* "call" | "individual" | "batch" | "done" | "raised"
    r_i,               \* 0-based loop index into recording_mbids
    reqs,              \* number of catalog requests issued so far
    lastGap,           \* enforced sleep between the two most recent requests
    slept,             \* enforced sleep since the most recent request
    sleeps,            \* number of time.sleep calls made
    outcome,           \* what the catalog answered for each looked-up reference
    \* ---- scoring (plex_api.py, _score_track_match) ----
    track,             \* the candidate: [ratingKey, title, grandparentTitle, guid]
    target_track_name, \* argument
    target_artist_name,\* argument
    mbids,             \* argument: identifiers, NoneId for a None element
    s_pc,              \* "idle" | "call" | "done" | "raised"
    title_score,       \* what the title comparison added to score
    artist_score,      \* what the artist comparison added to score
    bonus,             \* what the identifier loop added to score
    score,             \* the returned score
    \* ---- search (plex_api.py, search_for_track) ----
    track_name,        \* argument
    artist_name,       \* argument
    music_libraries,   \* keys of the sections get_music_libraries returned
    libs_failed,       \* the /library/sections request failed
    m_pc,              \* "idle" | "call" | "search" | "return" | "done" | "raised"
    m_lib,             \* 1-based index of the library being searched
    m_q,               \* 1-based index of the query being issued
    best_match,        \* ratingKey of the best track so far, 0 for None
    best_score,
    seen,              \* ratingKeys of the tracks scored so far, in order
    searches,          \* number of search requests issued
    failures,          \* number of search requests that failed
    result,            \* the returned ratingKey, 0 for None
    m_exc,             \* "none" | "request" | "scoring": what propagated
    \* ---- daemon mode (main.py) ----
    plex_configured,   \* PLEX_BASE_URL and PLEX_TOKEN are set
    initial_processing_complete,
    d_pc,              \* where each thread is
    d_job,             \* what each thread runs: "lidarr" | "plex"
    d_left,            \* references each thread has still to resolve
    d_result,          \* what the last job of each thread returned
    \* ---- playlist comparison (listenbrainz_to_plex.py, compare_playlists) ----
    existing_mbids,    \* argument: the identifiers now in the playlist
    new_tracks,        \* argument: recording_mbid of each track, 0 for none
    c_pc,              \* "idle" | "call" | "done"
    update_strategy,   \* the returned dict
    \* ---- playlist pass (listenbrainz_to_plex.py, create_playlist_from_tracks;
    \*      plex_api.py, the playlist methods) ----
    append_to_existing,\* argument
    playlists,         \* the server's playlists titled playlist_name, in
                       \* listing order: [ratingKey, items]
    before,            \* playlists when the pass began
    p_pc,              \* position of the pass, see below
    p_i,               \* 1-based index of the track loop and of the add loop
    matched_tracks,    \* ratingKeys of the tracks matched, in input order
    found,             \* ratingKey find_playlist_by_name returned, 0 for None
    total_added,       \* add_tracks_to_playlist: members added
    p_calls,           \* the delete, create and add calls issued, in order
    p_failures,        \* remote calls that failed so far
    success,           \* what create_playlist_from_tracks returned
    processed,         \* tracks with a recording_mbid the loop has taken up
    failed_matches,    \* the loop's list of failures, as recording identifiers
    p_outcomes,        \* what happened to each track of the loop, in order
    \* ---- served data (main.py: the globals, process_listenbrainz_data,
    \*      LibraryHandler.do_GET) ----
    artist_data,       \* the dict, as its keys in insertion order
    last_updated,      \* number of the update that set it, 0 for None
    lidarr_last_updated,
    plex_last_updated, \* 1 once a playlist run has set it, 0 for None
    data_lock,         \* who holds the lock: "none", a thread or "http"
    u_pc,              \* where each thread of daemon mode is, see below
    seen_artists,      \* the local dict of process_listenbrainz_data
    u_ret,             \* what the last call of process_listenbrainz_data
                       \* made by each thread returned
    at_call,           \* artist_data and the timestamps when the running
                       \* call of process_listenbrainz_data began
    committed,         \* the same when data_lock was last released
    calls,             \* calls of process_listenbrainz_data begun
    h_pc,              \* where the request handler is
    response           \* the reply the handler is building or sent last

rvars == <<LOCAL_MB_MIRROR, entry, recording_mbids, batch_size, results, r_pc,
           r_i, reqs, lastGap, slept, sleeps, outcome>>

svars == <<track, target_track_name, target_artist_name, mbids, s_pc,
           title_score, artist_score, bonus, score>>

mvars == <<track_name, artist_name, music_libraries, libs_failed, m_pc, m_lib,
           m_q, best_match, best_score, seen, searches, failures, result, m_exc>>

dvars == <<plex_configured, initial_processing_complete, d_pc, d_job, d_left,
           d_result>>

cvars == <<existing_mbids, new_tracks, c_pc, update_strategy>>

pvars == <<append_to_existing, playlists, before, p_pc, p_i, matched_tracks,
           found, total_added, p_calls, p_failures, success, processed,
           failed_matches, p_outcomes>>

hvars == <<artist_data, last_updated, lidarr_last_updated, plex_last_updated,
           data_lock, u_pc, seen_artists, u_ret, at_call, committed, calls,
           h_pc, response>>

vars == <<rvars, svars, mvars, dvars, cvars, pvars, hvars>>

\* what the actions of one component leave alone
ResolverOnly == UNCHANGED <<svars, mvars, dvars, cvars, pvars, hvars>>

ScoreOnly == UNCHANGED <<rvars, mvars, dvars, cvars, pvars, hvars>>

SearchOnly == UNCHANGED <<rvars, svars, dvars, cvars, pvars, hvars>>

CompareOnly == UNCHANGED <<rvars, svars, mvars, dvars, pvars, hvars>>

\* a playlist pass calls compare_playlists: it writes existing_mbids,
\* new_tracks and update_strategy
PassOnly == UNCHANGED <<rvars, svars, mvars, dvars, c_pc, hvars>>

DaemonOnly == UNCHANGED <<rvars, svars, mvars, cvars, pvars, hvars>>

\* the threads that serve and replace artist_data read plex_configured and
\* write initial_processing_complete
ServeOnly ==
    UNCHANGED <<rvars, svars, mvars, cvars, pvars, plex_configured, d_pc, d_job,
                d_left, d_result>>

\* ---------------------------------------------------------------- bounds
MaxRefs == 6
SmallBatch == 2
MaxStrLen == 2
MaxMbids == 2
MaxSections == 2
MaxSeen == 2
MaxResp == 1
MaxFailures == 1
MaxDaemonRefs == 2
MaxItems == 5
MaxTracks == 3
MaxRemoteFailures == 2
MaxArtists == 1
MaxResults == 2
MaxCalls == 2

\* ------------------------------------------------------------- constants
SmartThreshold == 5
DefaultBatchSize == 50
MirrorBatchCap == 100
PublicBatchCap == 25
MirrorBatchDelay == 1
PublicBatchDelay == 11
IndividualDelay == 11

None == "None"

Min(a, b) == IF a < b THEN a ELSE b

Range(s) == {s[k] : k \in 1..Len(s)}

\* ------------------------------------------------------------------- strings
\* A string is a sequence of one-character strings.
Chars == {"a", "A", "b", " "}

Strs(n) == UNION {[1..k -> Chars] : k \in 0..n}

LowerChar(c) == IF c = "A" THEN "a" ELSE IF c = "B" THEN "b" ELSE c

\* str.lower()
Lower(str) == [k \in 1..Len(str) |-> LowerChar(str[k])]

\* the Python test  needle in hay
Contains(needle, hay) ==
    \E k \in 0..(Len(hay) - Len(needle)) :
        SubSeq(hay, k + 1, k + Len(needle)) = needle

\* str.split(): the maximal runs of non-blank characters
RECURSIVE SplitFrom(_, _, _)
SplitFrom(str, k, cur) ==
    IF k > Len(str)
    THEN (IF cur = << >> THEN << >> ELSE <<cur>>)
    ELSE IF str[k] = " "
    THEN (IF cur = << >> THEN SplitFrom(str, k + 1, << >>)
          ELSE <<cur>> \o SplitFrom(str, k + 1, << >>))
    ELSE SplitFrom(str, k + 1, Append(cur, str[k]))

Split(str) == SplitFrom(str, 1, << >>)

\* ' '.join(words)
RECURSIVE Join(_)
Join(words) ==
    IF words = << >> THEN << >>
    ELSE IF Len(words) = 1 THEN words[1]
    ELSE words[1] \o <<" ">> \o Join(Tail(words))

common_words ==
    {<<"t", "h", "e">>, <<"a">>, <<"a", "n">>,
     <<"a", "n", "d">>, <<"o", "r">>, <<"b", "u", "t">>,
     <<"i", "n">>, <<"o", "n">>, <<"a", "t">>,
     <<"t", "o">>, <<"f", "o", "r">>, <<"o", "f">>,
     <<"w", "i", "t", "h">>, <<"b", "y">>, <<"f", "r", "o", "m">>,
     <<"u", "p">>, <<"a", "b", "o", "u", "t">>, <<"i", "n", "t", "o">>,
     <<"o", "v", "e", "r">>, <<"a", "f", "t", "e", "r">>}

clean_string(str) ==
    Join(SelectSeq(Split(str), LAMBDA w : w \notin common_words))

\* set(s.replace(' ', ''))
CharSet(str) == Range(SelectSeq(str, LAMBDA c : c # " "))

\* the default of the threshold argument, in tenths
fuzzy_threshold == 8

\* PlexClient._fuzzy_match
_fuzzy_match(str1, str2) ==
    IF str1 = << >> \/ str2 = << >> THEN FALSE
    ELSE LET set1 == CharSet(clean_string(str1))
             set2 == CharSet(clean_string(str2))
         IN  IF set1 = {} \/ set2 = {} THEN FALSE
             ELSE Cardinality(set1 \cap set2) * 10
                      >= fuzzy_threshold * Cardinality(set1 \cup set2)

\* ------------------------------------------------------------------- scoring
NoneId == <<"None">>

ContainsFirst(plex, target) ==
    IF Contains(target, plex) \/ Contains(plex, target) THEN 70
    ELSE IF plex = target THEN 100
    ELSE IF _fuzzy_match(plex, target) THEN 50
    ELSE 0

\* the if / elif / elif chain that scores the title, and again the artist
MatchTier(plex, target) ==
    IF plex = target THEN 100
    ELSE IF Contains(target, plex) \/ Contains(plex, target) THEN 70
    ELSE IF _fuzzy_match(plex, target) THEN 50
    ELSE 0

\* the loop over mbids: 50 at the first identifier found in the guid, -1 when
\* mbid.lower() is reached for an element that is None (AttributeError)
RECURSIVE MbidBonus(_, _)
MbidBonus(ids, plex_guid) ==
    IF ids = << >> THEN 0
    ELSE IF Head(ids) = NoneId THEN -1
    ELSE IF Contains(Lower(Head(ids)), plex_guid) THEN 50
    ELSE MbidBonus(Tail(ids), plex_guid)

\* PlexClient._score_track_match: the three amounts added to score
_score_track_match(t, name, artist, ids) ==
    [title  |-> MatchTier(Lower(t.title), Lower(name)),
     artist |-> MatchTier(Lower(t.grandparentTitle), Lower(artist)),
     bonus  |-> MbidBonus(ids, Lower(t.guid))]

\* ------------------------------------------------------ the catalog's answers
\* ok: artist credit with id and name; noid: artist credit whose artist has no
\* "id"; nocredit: no or empty "artist-credit"; keyerr: a credit entry without
\* the "artist" key; neterr: the transport or the HTTP status failed.
Payloads == {"ok", "noid", "nocredit", "keyerr", "neterr"}

Raises(p) ==
    IF p = "neterr" THEN "RequestException"
    ELSE IF p = "keyerr" THEN "KeyError"
    ELSE "none"

CaughtRequestOnly == {"RequestException"}

Caught == {"RequestException", "KeyError", "IndexError"}

NullTuple == <<None, None, None>>

\* an exception that no except clause of the resolver handles
Escapes(p) == Raises(p) # "none" /\ Raises(p) \notin Caught

\* get_artist_info: the tuple returned for one reference
get_artist_info(p) ==
    IF p = "ok" THEN <<"mbid", "name", "title">>
    ELSE IF p = "noid" THEN <<None, "name", "title">>
    ELSE NullTuple

\* the entry get_artist_info_batch stores for one recording of a response
BatchEntry(p) ==
    IF p = "ok" THEN <<"mbid", "name", "title">>
    ELSE IF p = "noid" THEN <<None, "name", "title">>
    ELSE <<None, None, "title">>

\* ------------------------------------------------------------------ resolver
InitResolver ==
    /\ LOCAL_MB_MIRROR \in BOOLEAN
    /\ entry \in {"smart", "batch"}
    /\ \E n \in 0..MaxRefs : recording_mbids = [k \in 1..n |-> k]
    /\ batch_size \in {SmallBatch, DefaultBatchSize}
    /\ (entry = "smart" => batch_size = DefaultBatchSize)
    /\ results = << >>
    /\ r_pc = "call"
    /\ r_i = 0
    /\ reqs = 0
    /\ lastGap = 0
    /\ slept = 0
    /\ sleeps = 0
    /\ outcome = << >>

\* get_artist_info_smart, the dispatch on the number of references
SmartDispatch ==
    /\ r_pc = "call"
    /\ entry = "smart"
    /\ r_pc' = IF Len(recording_mbids) <= SmartThreshold THEN "individual" ELSE "batch"
    /\ UNCHANGED <<LOCAL_MB_MIRROR, entry, recording_mbids, batch_size, results,
                   r_i, reqs, lastGap, slept, sleeps, outcome>>
    /\ ResolverOnly

\* a direct call of get_artist_info_batch
BatchCall ==
    /\ r_pc = "call"
    /\ entry = "batch"
    /\ r_pc' = "batch"
    /\ UNCHANGED <<LOCAL_MB_MIRROR, entry, recording_mbids, batch_size, results,
                   r_i, reqs, lastGap, slept, sleeps, outcome>>
    /\ ResolverOnly

IndividualSleepIfSeveral ==
    IF ~LOCAL_MB_MIRROR /\ Len(recording_mbids) > 1 THEN IndividualDelay ELSE 0

IndividualSleep == IF ~LOCAL_MB_MIRROR THEN IndividualDelay ELSE 0

\* one iteration of the loop of get_artist_info_smart
IndividualStep ==
    /\ r_pc = "individual"
    /\ r_i < Len(recording_mbids)
    /\ \E p \in Payloads :
        LET ref == recording_mbids[r_i + 1]
            res == get_artist_info(p)
            esc == Escapes(p)
        IN  /\ reqs' = reqs + 1
            /\ lastGap' = IF reqs = 0 THEN 0 ELSE slept
            /\ outcome' = (ref :> p) @@ outcome
            /\ IF esc
               THEN /\ r_pc' = "raised"
                    /\ UNCHANGED <<results, r_i, sleeps>>
                    /\ slept' = 0
               ELSE /\ results' = (ref :> res) @@ results
                    /\ r_i' = r_i + 1
                    /\ slept' = IndividualSleep
                    /\ sleeps' = IF IndividualSleep > 0 THEN sleeps + 1 ELSE sleeps
                    /\ UNCHANGED r_pc
    /\ UNCHANGED <<LOCAL_MB_MIRROR, entry, recording_mbids, batch_size>>
    /\ ResolverOnly

IndividualReturn ==
    /\ r_pc = "individual"
    /\ r_i >= Len(recording_mbids)
    /\ r_pc' = "done"
    /\ UNCHANGED <<LOCAL_MB_MIRROR, entry, recording_mbids, batch_size, results,
                   r_i, reqs, lastGap, slept, sleeps, outcome>>
    /\ ResolverOnly

actual_batch_size_one == Min(batch_size, 1)

\* the batch size and delay get_artist_info_batch settles on
actual_batch_size ==
    IF LOCAL_MB_MIRROR THEN Min(batch_size, MirrorBatchCap)
    ELSE Min(batch_size, PublicBatchCap)

rate_limit_delay == IF LOCAL_MB_MIRROR THEN MirrorBatchDelay ELSE PublicBatchDelay

total_batches ==
    (Len(recording_mbids) + actual_batch_size - 1) \div actual_batch_size

\* the references of the batch starting at 0-based index i
BatchRefs(i) ==
    {recording_mbids[k] :
        k \in (i + 1)..Min(i + actual_batch_size, Len(recording_mbids))}

\* what the catalog may answer to one batch request: the request fails, or
\* each reference of the batch is returned in some shape or left out
RecKinds == {"ok", "noid", "nocredit", "keyerr", "absent"}

Responses(batch) == [batch -> RecKinds] \cup {[k \in batch |-> "neterr"]}

ResponseRaises(batch, resp) ==
    IF \E k \in batch : resp[k] = "neterr" THEN "RequestException"
    ELSE IF \E k \in batch : resp[k] = "keyerr" THEN "KeyError"
    ELSE "none"

\* the recordings parsed before the response is exhausted or parsing raises
Parsed(batch, resp) ==
    {k \in batch :
        /\ resp[k] \in {"ok", "noid", "nocredit"}
        /\ \A j \in batch : j < k => resp[j] \notin {"keyerr", "neterr"}}

\* one iteration of the loop of get_artist_info_batch
BatchStep ==
    /\ r_pc = "batch"
    /\ r_i < Len(recording_mbids)
    /\ LET batch == BatchRefs(r_i)
           batch_num == (r_i \div actual_batch_size) + 1
       IN  \E resp \in Responses(batch) :
            LET exc == ResponseRaises(batch, resp)
                stored == [k \in Parsed(batch, resp) |-> BatchEntry(resp[k])]
                results1 == stored @@ results
                filled == [k \in batch \ DOMAIN results1 |-> NullTuple]
            IN  /\ reqs' = reqs + 1
                /\ lastGap' = IF reqs = 0 THEN 0 ELSE slept
                /\ outcome' = resp @@ outcome
                /\ IF exc = "none"
                   THEN /\ results' = results1
                        /\ r_i' = r_i + actual_batch_size
                        /\ slept' = IF batch_num < total_batches
                                     THEN rate_limit_delay ELSE 0
                        /\ sleeps' = IF batch_num < total_batches
                                      THEN sleeps + 1 ELSE sleeps
                        /\ UNCHANGED r_pc
                   ELSE IF exc \in Caught
                   THEN /\ results' = filled @@ results1
                        /\ r_i' = r_i + actual_batch_size
                        /\ slept' = 0
                        /\ UNCHANGED <<sleeps, r_pc>>
                   ELSE /\ r_pc' = "raised"
                        /\ results' = results1
                        /\ slept' = 0
                        /\ UNCHANGED <<sleeps, r_i>>
    /\ UNCHANGED <<LOCAL_MB_MIRROR, entry, recording_mbids, batch_size>>
    /\ ResolverOnly

BatchReturn ==
    /\ r_pc = "batch"
    /\ r_i >= Len(recording_mbids)
    /\ r_pc' = "done"
    /\ UNCHANGED <<LOCAL_MB_MIRROR, entry, recording_mbids, batch_size, results,
                   r_i, reqs, lastGap, slept, sleeps, outcome>>
    /\ ResolverOnly

NextResolver ==
    \/ SmartDispatch
    \/ BatchCall
    \/ IndividualStep
    \/ IndividualReturn
    \/ BatchStep
    \/ BatchReturn

\* ------------------------------------------------------------ resolver claims
Refs == Range(recording_mbids)

Failed(p) == p \in {"neterr", "keyerr"}

\* C1: when the resolver returns, every reference passed in has an entry in
\* the result, and a reference whose lookup failed or that the catalog left
\* out of its answer maps to the all-null tuple.
C1_EveryReferenceHasEntry ==
    r_pc = "done" =>
        \A ref \in Refs :
            /\ ref \in DOMAIN results
            /\ (Failed(outcome[ref]) \/ outcome[ref] = "absent")
                   => results[ref] = NullTuple

C3_PublicSpacing ==
    (~LOCAL_MB_MIRROR /\ reqs >= 2) => lastGap >= 10

C6_DelayOnlyForSeveral ==
    (entry = "smart" /\ Len(recording_mbids) <= 5 /\ r_pc = "done") =>
        /\ reqs = Len(recording_mbids)
        /\ (sleeps > 0 <=> (Len(recording_mbids) > 1 /\ ~LOCAL_MB_MIRROR))

\* C6 (amended): for at most 5 references get_artist_info_smart issues one
\* request per reference and, against the public service, sleeps after every
\* request, a single one included; against a private mirror it never sleeps.
C6_DelayAfterEveryPublicRequest ==
    (entry = "smart" /\ Len(recording_mbids) <= 5 /\ r_pc = "done") =>
        /\ reqs = Len(recording_mbids)
        /\ sleeps = (IF LOCAL_MB_MIRROR THEN 0 ELSE Len(recording_mbids))

C6_Witness ==
    /\ entry = "smart"
    /\ r_pc = "done"
    /\ ~LOCAL_MB_MIRROR
    /\ Len(recording_mbids) = 1
    /\ sleeps = 1

\* ------------------------------------------------------- the scoring function
\* pairs <<candidate string, target string>>, one for each tier
CasePairs ==
    {<<<<"A", "b">>, <<"a", "b">>>>,      \* equal but for case
     <<<<"a", "b">>, <<"b">>>>,           \* target inside candidate
     << << >>, <<"b">>>>,                 \* candidate has no such field
     <<<<"a", "b">>, <<"b", "A">>>>,      \* same characters, other order
     <<<<"a", " ", "b">>, <<"b", "b">>>>, \* same characters but for a stop-word
     <<<<"b">>, <<"A", "A">>>>}           \* nothing in common

FullPairs == Strs(MaxStrLen) \X Strs(MaxStrLen)

\* pairs <<mbids, guid>>
Ids == {<<"b">>, <<"A">>, <<"A", "A">>, NoneId}

IdLists == UNION {[1..k -> Ids] : k \in 0..MaxMbids}

BasicIdCases == {<< << >>, << >> >>, << <<<<"b">>>>, <<"x", "B">> >>}

AllIdCases == IdLists \X {<< >>, <<"x", "A", "b">>}

ScoreInputs ==
    (FullPairs \X CasePairs \X BasicIdCases)
        \cup (CasePairs \X FullPairs \X BasicIdCases)
        \cup (CasePairs \X CasePairs \X AllIdCases)

NoTrack == [ratingKey |-> 0, title |-> << >>, grandparentTitle |-> << >>,
            guid |-> << >>]

IdleScore ==
    /\ track = NoTrack
    /\ target_track_name = << >>
    /\ target_artist_name = << >>
    /\ mbids = << >>
    /\ s_pc = "idle"
    /\ title_score = 0
    /\ artist_score = 0
    /\ bonus = 0
    /\ score = 0

InitScore ==
    /\ \E in \in ScoreInputs :
        /\ track = [ratingKey |-> 1, title |-> in[1][1],
                    grandparentTitle |-> in[2][1], guid |-> in[3][2]]
        /\ target_track_name = in[1][2]
        /\ target_artist_name = in[2][2]
        /\ mbids = in[3][1]
    /\ s_pc = "call"
    /\ title_score = 0
    /\ artist_score = 0
    /\ bonus = 0
    /\ score = 0

\* a call of _score_track_match
ScoreCall ==
    /\ s_pc = "call"
    /\ LET r == _score_track_match(track, target_track_name,
                                   target_artist_name, mbids)
       IN  /\ title_score' = r.title
           /\ artist_score' = r.artist
           /\ IF r.bonus < 0
              THEN /\ s_pc' = "raised"
                   /\ bonus' = 0
                   /\ score' = 0
              ELSE /\ s_pc' = "done"
                   /\ bonus' = r.bonus
                   /\ score' = r.title + r.artist + r.bonus
    /\ UNCHANGED <<track, target_track_name, target_artist_name, mbids>>
    /\ ScoreOnly

NextScore == ScoreCall

\* -------------------------------------------------------------- scoring claims
\* the characters of the words of str that are not stop-words
WordChars(str) ==
    UNION {Range(Split(str)[k]) :
              k \in {j \in 1..Len(Split(str)) : Split(str)[j] \notin common_words}}

Jaccard80(a, b) ==
    /\ WordChars(a) # {}
    /\ WordChars(b) # {}
    /\ 10 * Cardinality(WordChars(a) \cap WordChars(b))
           >= 8 * Cardinality(WordChars(a) \cup WordChars(b))

EitherContains(a, b) == Contains(a, b) \/ Contains(b, a)

TierAsClaimed(component, plex, target) ==
    /\ component \in {0, 50, 70, 100}
    /\ (component = 100 <=> plex = target)
    /\ (component = 70 <=> (plex # target /\ EitherContains(plex, target)))
    /\ (component = 50 <=> (plex # target /\ ~EitherContains(plex, target)
                               /\ Jaccard80(plex, target)))

Slice(words, lo, hi) == SubSeq(words, lo + 1, Min(hi, Len(words)))

\* words[-n:]
LastWords(words, n) ==
    SubSeq(words, (IF Len(words) > n THEN Len(words) - n ELSE 0) + 1, Len(words))

search_queries(name, artist) ==
    <<artist \o <<" ">> \o name,
      name \o <<" ">> \o artist,
      name,
      artist,
      Join(Slice(Split(name), 0, 3)),
      Join(Slice(Split(name), 0, 2)),
      Join(LastWords(Split(name), 3)),
      Join(Slice(Split(name), 1, 4))>>

\* the tracks the Plex server holds; ratingKey is the position
Library ==
    <<[ratingKey |-> 1, title |-> <<"b", "b">>, grandparentTitle |-> <<"a", "a">>,
       guid |-> <<"x", "A", "b">>],
      [ratingKey |-> 2, title |-> <<"b", "a">>, grandparentTitle |-> <<"a", "a">>,
       guid |-> << >>],
      [ratingKey |-> 3, title |-> <<"a">>, grandparentTitle |-> <<"a", "a">>,
       guid |-> << >>],
      [ratingKey |-> 4, title |-> <<"b", "b">>, grandparentTitle |-> <<"b">>,
       guid |-> << >>],
      [ratingKey |-> 5, title |-> <<"A", "b">>, grandparentTitle |-> <<"b", "A">>,
       guid |-> <<"x", "A", "b">>]>>

MusicTypes == {"artist", "music", "audio"}

SectionLists == UNION {[1..k -> {"artist", "movie"}] : k \in 0..MaxSections}

\* get_music_libraries: the keys of the music sections, [] when the request failed
get_music_libraries(failed, sections) ==
    IF failed THEN << >>
    ELSE SelectSeq([k \in 1..Len(sections) |-> k],
                   LAMBDA k : sections[k] \in MusicTypes)

\* what can go wrong in a request: the transport or status (RequestException),
\* or a body of an unexpected shape (AttributeError)
FailKinds == {"RequestException", "AttributeError"}

HandlesRequestOnly(exc) == exc = "RequestException"

\* search_tracks_in_library: except Exception
SearchHandles(exc) == exc \in FailKinds

AcceptAbove(match, s) == match # 0 /\ s > 50

\* the acceptance test before returning
Accept(match, s) == match # 0 /\ s >= 50

BetterOrEqual(s, best) == s >= best

\* the test that replaces the best match
Better(s, best) == s > best

\* the loop over the tracks of one response
RECURSIVE ScanTracks(_, _, _, _)
ScanTracks(tracks, acc, name, artist) ==
    IF tracks = << >> \/ acc.raised THEN acc
    ELSE LET t == Library[Head(tracks)]
             r == _score_track_match(t, name, artist, mbids)
             sc == r.title + r.artist + r.bonus
             acc1 == IF r.bonus < 0
                     THEN [acc EXCEPT !.raised = TRUE]
                     ELSE IF Better(sc, acc.score)
                     THEN [acc EXCEPT !.match = t.ratingKey, !.score = sc,
                                      !.scored = Append(@, t.ratingKey)]
                     ELSE [acc EXCEPT !.scored = Append(@, t.ratingKey)]
         IN  ScanTracks(Tail(tracks), acc1, name, artist)

IdleSearch ==
    /\ track_name = << >>
    /\ artist_name = << >>
    /\ music_libraries = << >>
    /\ libs_failed = FALSE
    /\ m_pc = "idle"
    /\ m_lib = 0
    /\ m_q = 0
    /\ best_match = 0
    /\ best_score = 0
    /\ seen = << >>
    /\ searches = 0
    /\ failures = 0
    /\ result = 0
    /\ m_exc = "none"

InitSearch ==
    /\ track_name = <<"A", "b">>
    /\ artist_name = <<"b", "a">>
    /\ mbids \in {<< >>, <<<<"b">>>>, <<NoneId>>}
    /\ music_libraries = << >>
    /\ libs_failed = FALSE
    /\ m_pc = "call"
    /\ m_lib = 0
    /\ m_q = 0
    /\ best_match = 0
    /\ best_score = 0
    /\ seen = << >>
    /\ searches = 0
    /\ failures = 0
    /\ result = 0
    /\ m_exc = "none"
    /\ track = NoTrack
    /\ target_track_name = << >>
    /\ target_artist_name = << >>
    /\ s_pc = "idle"
    /\ title_score = 0
    /\ artist_score = 0
    /\ bonus = 0
    /\ score = 0

\* the head of search_for_track: the library list, and the early return
GetLibraries ==
    /\ m_pc = "call"
    /\ \E failed \in BOOLEAN, sections \in SectionLists :
        /\ (failed => sections = << >>)
        /\ libs_failed' = failed
        /\ music_libraries' = get_music_libraries(failed, sections)
        /\ IF music_libraries' = << >>
           THEN m_pc' = "done" /\ m_lib' = 0 /\ m_q' = 0
           ELSE m_pc' = "search" /\ m_lib' = 1 /\ m_q' = 1
    /\ UNCHANGED <<track_name, artist_name, best_match, best_score, seen,
                   searches, failures, result, m_exc>>
    /\ SearchOnly

SearchResponses ==
    UNION {[1..k -> 1..Len(Library)] :
              k \in 0..Min(MaxResp, MaxSeen - Len(seen))}

\* one pass of the inner loop: a search request and the scoring of its tracks
SearchStep ==
    /\ m_pc = "search"
    /\ \E exc \in FailKinds \cup {"none"}, resp \in SearchResponses :
        /\ (exc # "none" => resp = << >> /\ failures < MaxFailures)
        /\ searches' = searches + 1
        /\ failures' = IF exc # "none" THEN failures + 1 ELSE failures
        /\ IF exc # "none" /\ ~SearchHandles(exc)
           THEN /\ m_pc' = "raised"
                /\ m_exc' = "request"
                /\ UNCHANGED <<best_match, best_score, seen, m_lib, m_q>>
           ELSE LET acc == ScanTracks(resp,
                               [match |-> best_match, score |-> best_score,
                                scored |-> seen, raised |-> FALSE],
                               track_name, artist_name)
                    last_q == m_q = Len(search_queries(track_name, artist_name))
                IN  /\ best_match' = acc.match
                    /\ best_score' = acc.score
                    /\ seen' = acc.scored
                    /\ IF acc.raised
                       THEN /\ m_pc' = "raised"
                            /\ m_exc' = "scoring"
                            /\ UNCHANGED <<m_lib, m_q>>
                       ELSE /\ m_exc' = m_exc
                            /\ m_q' = IF last_q THEN 1 ELSE m_q + 1
                            /\ m_lib' = IF last_q THEN m_lib + 1 ELSE m_lib
                            /\ m_pc' = IF last_q /\ m_lib = Len(music_libraries)
                                       THEN "return" ELSE "search"
    /\ UNCHANGED <<track_name, artist_name, music_libraries, libs_failed, result>>
    /\ SearchOnly

\* the threshold test and the return
SearchReturn ==
    /\ m_pc = "return"
    /\ result' = IF Accept(best_match, best_score) THEN best_match ELSE 0
    /\ m_pc' = "done"
    /\ UNCHANGED <<track_name, artist_name, music_libraries, libs_failed, m_lib,
                   m_q, best_match, best_score, seen, searches, failures, m_exc>>
    /\ SearchOnly

NextSearch == GetLibraries \/ SearchStep \/ SearchReturn

\* C27: a candidate whose title and artist are both empty or missing, and
\* that has no identifier match, scores 0, so that search_for_track never
\* accepts it.
C27_EmptyCandidateScoresZero ==
    (/\ s_pc = "done"
     /\ track.title = << >>
     /\ track.grandparentTitle = << >>
     /\ target_track_name # << >>
     /\ target_artist_name # << >>
     /\ bonus = 0) => score = 0

\* --------------------------------------------------------------- search claims
ScoreOf(key) ==
    LET r == _score_track_match(Library[key], track_name, artist_name, mbids)
    IN  r.title + r.artist + r.bonus

MaxSeenScore ==
    IF seen = << >> THEN 0
    ELSE CHOOSE m \in {ScoreOf(seen[k]) : k \in 1..Len(seen)} :
             \A k \in 1..Len(seen) : ScoreOf(seen[k]) <= m

\* C7: search_for_track returns the ratingKey of a candidate iff the highest
\* score over all candidates of all libraries and queries is at least 50.
C7_ThresholdFifty ==
    m_pc = "done" =>
        /\ (result # 0 <=> MaxSeenScore >= 50)
        /\ (result # 0 => \E k \in 1..Len(seen) : seen[k] = result)

C7_Witness ==
    /\ m_pc = "done"
    /\ seen # << >>
    /\ MaxSeenScore < 50
    /\ result = 0

\* C9: the candidate returned is the highest-scoring one seen, and among
\* several with the highest score the one observed first.
C9_FirstHighest ==
    (m_pc = "done" /\ result # 0) =>
        \E k \in 1..Len(seen) :
            /\ seen[k] = result
            /\ ScoreOf(seen[k]) = MaxSeenScore
            /\ \A j \in 1..(k - 1) : ScoreOf(seen[j]) < MaxSeenScore

C9_Witness ==
    /\ m_pc = "done"
    /\ \E i, j \in 1..Len(seen) :
        /\ i < j
        /\ seen[i] # seen[j]
        /\ ScoreOf(seen[i]) = MaxSeenScore
        /\ ScoreOf(seen[j]) = MaxSeenScore
        /\ result = seen[i]

\* C10: a failing library-list or search request never propagates out of
\* search_for_track; after a failed search the remaining queries and
\* libraries are still searched, and an empty or failed library list gives
\* null without any search.
C10_RequestFailureSkipped ==
    /\ m_exc # "request"
    /\ (m_pc = "done" /\ music_libraries # << >>)
           => searches = 8 * Len(music_libraries)
    /\ (m_pc = "done" /\ music_libraries = << >>)
           => (result = 0 /\ searches = 0)

C10_Witness ==
    /\ m_pc = "done"
    /\ failures > 0
    /\ searches = 8 * Len(music_libraries)
    /\ result # 0

\* C24: the identifiers are optional for matching: with a null artist
\* identifier the track is still searched and its candidates are scored on
\* title and artist alone; the missing identifier never makes the search
\* fail.
C24_NullIdentifierStillMatched ==
    mbids = <<NoneId>> => (m_pc # "raised" /\ m_exc # "scoring")

\* ------------------------------------------------------------------ daemon mode
\* The threads run_daemon_mode starts: InitialProcessing, LidarrUpdater and
\* PlexUpdater.  A job is one call of process_listenbrainz_data ("lidarr") or
\* of create_plex_playlists ("plex").  Positions of a thread:
\*   wait_initial  the loop  while not initial_processing_complete
\*   interval      time.sleep(update_interval)
\*   fetch         the ListenBrainz request for the recommendations
\*   request       a catalog lookup request is in flight
\*   delay         the time.sleep(1.1) after a lookup of get_artist_info_smart
\*   search        search_for_track for the track just resolved
\*   update        the update of artist_data under data_lock
\*   playlist      the creation of the playlist from the matched tracks
\*   finished      the thread has returned
Threads == {"initial", "lidarr", "plex"}

Updaters == {"lidarr", "plex"}

IdleDaemon ==
    /\ plex_configured = FALSE
    /\ initial_processing_complete = FALSE
    /\ d_pc = [t \in Threads |-> "idle"]
    /\ d_job = [t \in Threads |-> "none"]
    /\ d_left = [t \in Threads |-> 0]
    /\ d_result = [t \in Threads |-> "none"]

InitDaemon ==
    /\ LOCAL_MB_MIRROR \in BOOLEAN
    /\ plex_configured \in BOOLEAN
    /\ initial_processing_complete = FALSE
    /\ d_pc = [t \in Threads |-> IF t = "initial" THEN "fetch" ELSE "wait_initial"]
    /\ d_job = [t \in Threads |-> IF t = "plex" THEN "plex" ELSE "lidarr"]
    /\ d_left = [t \in Threads |-> 0]
    /\ d_result = [t \in Threads |-> "none"]
    /\ entry = "idle"
    /\ recording_mbids = << >>
    /\ batch_size = DefaultBatchSize
    /\ results = << >>
    /\ r_pc = "idle"
    /\ r_i = 0
    /\ reqs = 0
    /\ lastGap = 0
    /\ slept = 0
    /\ sleeps = 0
    /\ outcome = << >>

\* what a thread does when the job it runs returns ret
EndJob(t, ret) ==
    /\ d_result' = [d_result EXCEPT ![t] = ret]
    /\ IF t = "initial"
       THEN IF d_job[t] = "lidarr" /\ plex_configured
            THEN /\ d_pc' = [d_pc EXCEPT ![t] = "fetch"]
                 /\ d_job' = [d_job EXCEPT ![t] = "plex"]
                 /\ UNCHANGED initial_processing_complete
            ELSE /\ d_pc' = [d_pc EXCEPT ![t] = "finished"]
                 /\ initial_processing_complete' = TRUE
                 /\ UNCHANGED d_job
       ELSE /\ d_pc' = [d_pc EXCEPT ![t] = "interval"]
            /\ UNCHANGED <<d_job, initial_processing_complete>>

\* (the wait loop left without looking at the flag)
WaitInitialUnchecked(t) ==
    /\ t \in Updaters
    /\ d_pc[t] = "wait_initial"
    /\ d_pc' = [d_pc EXCEPT ![t] = "interval"]
    /\ UNCHANGED <<plex_configured, initial_processing_complete, d_job, d_left,
                   d_result>>
    /\ DaemonOnly

\* lidarr_update_task / plex_update_task: the wait for initial processing
WaitInitial(t) ==
    /\ t \in Updaters
    /\ d_pc[t] = "wait_initial"
    /\ initial_processing_complete
    /\ d_pc' = [d_pc EXCEPT ![t] = "interval"]
    /\ UNCHANGED <<plex_configured, initial_processing_complete, d_job, d_left,
                   d_result>>
    /\ DaemonOnly

\* the interval has elapsed: the scheduled job starts
IntervalElapsed(t) ==
    /\ t \in Updaters
    /\ d_pc[t] = "interval"
    /\ IF d_job[t] = "plex" /\ ~plex_configured
       THEN /\ d_result' = [d_result EXCEPT ![t] = "True"]
            /\ UNCHANGED d_pc
       ELSE /\ d_pc' = [d_pc EXCEPT ![t] = "fetch"]
            /\ UNCHANGED d_result
    /\ UNCHANGED <<plex_configured, initial_processing_complete, d_job, d_left>>
    /\ DaemonOnly

\* the recommendations arrive: n references to resolve, or nothing usable
Fetch(t) ==
    /\ d_pc[t] = "fetch"
    /\ \E n \in 0..MaxDaemonRefs :
        IF n = 0
        THEN EndJob(t, "False") /\ UNCHANGED d_left
        ELSE /\ d_pc' = [d_pc EXCEPT ![t] = "request"]
             /\ d_left' = [d_left EXCEPT ![t] = n]
             /\ UNCHANGED <<d_job, initial_processing_complete, d_result>>
    /\ UNCHANGED plex_configured
    /\ DaemonOnly

\* a catalog lookup returns; create_playlist_from_tracks searches Plex for the
\* track when the lookup gave a name and a title, and skips the track otherwise
LookupReturns(t) ==
    /\ d_pc[t] = "request"
    /\ IF d_job[t] = "plex"
       THEN \E resolved \in BOOLEAN :
                IF resolved
                THEN /\ d_pc' = [d_pc EXCEPT ![t] = "search"]
                     /\ UNCHANGED d_left
                ELSE /\ d_pc' = [d_pc EXCEPT ![t] =
                                    IF d_left[t] = 1 THEN "playlist" ELSE "request"]
                     /\ d_left' = [d_left EXCEPT ![t] = @ - 1]
       ELSE IF ~LOCAL_MB_MIRROR
       THEN /\ d_pc' = [d_pc EXCEPT ![t] = "delay"]
            /\ UNCHANGED d_left
       ELSE /\ d_pc' = [d_pc EXCEPT ![t] =
                           IF d_left[t] = 1 THEN "update" ELSE "request"]
            /\ d_left' = [d_left EXCEPT ![t] = @ - 1]
    /\ UNCHANGED <<plex_configured, initial_processing_complete, d_job, d_result>>
    /\ DaemonOnly

\* the sleep after a lookup of get_artist_info_smart ends
DelayElapsed(t) ==
    /\ d_pc[t] = "delay"
    /\ d_pc' = [d_pc EXCEPT ![t] = IF d_left[t] = 1 THEN "update" ELSE "request"]
    /\ d_left' = [d_left EXCEPT ![t] = @ - 1]
    /\ UNCHANGED <<plex_configured, initial_processing_complete, d_job, d_result>>
    /\ DaemonOnly

\* search_for_track returns; the loop goes on with the next track
SearchDone(t) ==
    /\ d_pc[t] = "search"
    /\ d_pc' = [d_pc EXCEPT ![t] = IF d_left[t] = 1 THEN "playlist" ELSE "request"]
    /\ d_left' = [d_left EXCEPT ![t] = @ - 1]
    /\ UNCHANGED <<plex_configured, initial_processing_complete, d_job, d_result>>
    /\ DaemonOnly

\* the end of process_listenbrainz_data (False when the write of the JSON file
\* raises) or of create_plex_playlists
JobDone(t) ==
    /\ d_pc[t] \in {"update", "playlist"}
    /\ \E ret \in {"True", "False"} : EndJob(t, ret)
    /\ UNCHANGED <<plex_configured, d_left>>
    /\ DaemonOnly

NextDaemon ==
    \/ \E t \in Threads : WaitInitial(t)
    \/ \E t \in Threads : IntervalElapsed(t)
    \/ \E t \in Threads : Fetch(t)
    \/ \E t \in Threads : LookupReturns(t)
    \/ \E t \in Threads : DelayElapsed(t)
    \/ \E t \in Threads : SearchDone(t)
    \/ \E t \in Threads : JobDone(t)

\* ---------------------------------------------------------------- daemon claims
\* the threads that are inside a resolution call against the catalog
Resolving == {t \in Threads : d_pc[t] \in {"request", "delay"}}

\* C4: against the public service at most one thread is issuing lookups at
\* any moment: the Lidarr updater's resolution and the Plex updater's
\* per-track resolution never overlap.
C4_OneResolverAtATime ==
    ~LOCAL_MB_MIRROR => Cardinality(Resolving) <= 1

\* the threads that are inside create_plex_playlists, past its configuration
\* test
Reconciling ==
    {t \in Threads : /\ d_job[t] = "plex"
                     /\ d_pc[t] \in {"fetch", "request", "search", "playlist"}}

\* C19: in daemon mode the initial playlist creation of
\* initial_processing_task and the scheduled runs of plex_update_task never
\* execute create_plex_playlists at the same time: at most one reconciliation
\* pass is active at any moment.
C19_OnePassAtATime == Cardinality(Reconciling) <= 1

\* the scheduled run is creating playlists after the initial run created them
C19_Witness ==
    /\ plex_configured
    /\ d_pc["initial"] = "finished"
    /\ d_result["initial"] \in {"True", "False"}
    /\ d_pc["plex"] = "playlist"

\* ---------------------------------------------------------- compare_playlists
\* A recording identifier is a positive number; a track without a
\* recording_mbid is 0.
NoMbid == 0

similarity_threshold_num == 4

similarity_threshold_den == 5

\* [track.get("recording_mbid") for track in new_tracks if ...]
new_mbids_of(tracks) == SelectSeq(tracks, LAMBDA t : t # NoMbid)

\* [x for x in list if x not in other]
NotIn(list, other) == SelectSeq(list, LAMBDA x : x \notin other)

\* similarity >= similarity_threshold, with similarity = n / d (0.0 when either
\* set is empty)
\* (the comparison made strict)
AboveThreshold(n, d) == n * similarity_threshold_den > d * similarity_threshold_num

SimilarEnough(n, d) == n * similarity_threshold_den >= d * similarity_threshold_num

\* compare_playlists; the dicts for skip and rebuild carry no to_add and
\* to_remove, which are << >> here
compare_playlists(existing, tracks) ==
    LET new_mbids == new_mbids_of(tracks)
        existing_set == Range(existing)
        new_set == Range(new_mbids)
        inter == existing_set \cap new_set
        union == existing_set \cup new_set
    IN  IF existing = new_mbids
        THEN [strategy |-> "skip", to_add |-> << >>, to_remove |-> << >>]
        ELSE IF existing_set = {} /\ new_set = {}
        THEN [strategy |-> "skip", to_add |-> << >>, to_remove |-> << >>]
        ELSE IF existing_set # {} /\ new_set # {}
                /\ SimilarEnough(Cardinality(inter), Cardinality(union))
        THEN [strategy |-> "delta",
              to_add |-> NotIn(new_mbids, existing_set),
              to_remove |-> NotIn(existing, new_set)]
        ELSE [strategy |-> "rebuild", to_add |-> << >>, to_remove |-> << >>]

\* ---- the comparison on bounded lists
Items == 1..MaxItems

RECURSIVE Asc(_)
\* the members of S in increasing order
Asc(S) ==
    IF S = {} THEN << >>
    ELSE LET m == CHOOSE x \in S : \A y \in S : x <= y
         IN  <<m>> \o Asc(S \ {m})

Reverse(list) == [i \in 1..Len(list) |-> list[Len(list) + 1 - i]]

\* the lists tried: every set of items in increasing order, in decreasing
\* order, and repeated
CompareLists ==
    UNION {{Asc(S), Reverse(Asc(S)), Asc(S) \o Asc(S)} : S \in SUBSET Items}

\* the track lists tried: the same, also with a leading track that has no
\* recording_mbid
CompareTracks == CompareLists \cup {<<NoMbid>> \o l : l \in CompareLists}

NoStrategy == [strategy |-> "none", to_add |-> << >>, to_remove |-> << >>]

IdleCompare ==
    /\ existing_mbids = << >>
    /\ new_tracks = << >>
    /\ c_pc = "idle"
    /\ update_strategy = NoStrategy

InitCompare ==
    /\ existing_mbids \in CompareLists
    /\ new_tracks \in CompareTracks
    /\ c_pc = "call"
    /\ update_strategy = NoStrategy

CompareCall ==
    /\ c_pc = "call"
    /\ update_strategy' = compare_playlists(existing_mbids, new_tracks)
    /\ c_pc' = "done"
    /\ UNCHANGED <<existing_mbids, new_tracks>>
    /\ CompareOnly

NextCompare == CompareCall

\* ------------------------------------------------------- comparison claims
\* the strategy the claim gives for current list cur and desired list des
StrategyAsClaimed(cur, des) ==
    IF cur = des THEN "skip"
    ELSE IF 5 * Cardinality(Range(cur) \cap Range(des))
              >= 4 * Cardinality(Range(cur) \cup Range(des))
    THEN "delta"
    ELSE "rebuild"

\* C11: compare_playlists gives skip when current and desired are equal
\* element by element, otherwise delta when the Jaccard similarity of the two
\* lists as sets is at least 0.8, with to_add the desired items not in current
\* (in desired order) and to_remove the current items not in desired,
\* otherwise rebuild; [A,B,C,D,E] against [A,B,C,D] is delta with to_remove
\* [E] and to_add [], and [A,B,C,D] against [A,B,C] is rebuild.
C11_StrategyChoice ==
    c_pc = "done" =>
        LET des == new_mbids_of(new_tracks)
        IN  /\ update_strategy.strategy = StrategyAsClaimed(existing_mbids, des)
            /\ update_strategy.strategy = "delta" =>
                /\ update_strategy.to_add
                     = SelectSeq(des, LAMBDA x : x \notin Range(existing_mbids))
                /\ update_strategy.to_remove
                     = SelectSeq(existing_mbids, LAMBDA x : x \notin Range(des))
            /\ (existing_mbids = <<1, 2, 3, 4, 5>> /\ des = <<1, 2, 3, 4>>) =>
                update_strategy
                  = [strategy |-> "delta", to_add |-> << >>, to_remove |-> <<5>>]
            /\ (existing_mbids = <<1, 2, 3, 4>> /\ des = <<1, 2, 3>>) =>
                update_strategy.strategy = "rebuild"

\* the comparison has returned delta for [A,B,C,D,E] against [A,B,C,D]
C11_Witness ==
    /\ c_pc = "done"
    /\ existing_mbids = <<1, 2, 3, 4, 5>>
    /\ new_mbids_of(new_tracks) = <<1, 2, 3, 4>>
    /\ update_strategy.strategy = "delta"

\* ---------------------------------------------------------------- playlist pass
\* One call of create_playlist_from_tracks (enable_smart_updates keeps its
\* default, True; no caller passes it) against a Plex server.  Only the
\* playlists titled playlist_name are kept: find_playlist_by_name returns the
\* first of them in the listing, and a created playlist is listed last.
\* Positions of the pass:
\*   start     the call
\*   existing  get_existing_playlist_mbids
\*   compare   compare_playlists and the choice of the strategy
\*   match     the loop over tracks_to_process
\*   find      find_playlist_by_name before the update
\*   delete    delete_playlist of the playlist found
\*   settle    the time.sleep(2) after the deletion
\*   create    the POST that creates the playlist with its first track
\*   refind    the time.sleep(2) and find_playlist_by_name after the creation
\*   add       the loop of add_tracks_to_playlist
\*   blocked   a request that the server never answers
\*   done      create_playlist_from_tracks has returned
PlexKeys == {1, 2}

\* what the server holds under playlist_name when the pass begins
InitialPlaylists ==
    {<< >>} \cup {<<[ratingKey |-> 1, items |-> m]>> :
                     m \in {<< >>, <<1>>, <<1, 2>>, <<2, 1>>}}

\* the track lists: track i carries recording identifier i or none
TrackLists ==
    UNION {[1..n -> {0, 1}] : n \in 0..MaxTracks}

TracksOf(flags) == [i \in 1..Len(flags) |-> IF flags[i] = 1 THEN i ELSE NoMbid]

IdlePass ==
    /\ append_to_existing = FALSE
    /\ playlists = << >>
    /\ before = << >>
    /\ p_pc = "idle"
    /\ p_i = 0
    /\ matched_tracks = << >>
    /\ found = 0
    /\ total_added = 0
    /\ p_calls = << >>
    /\ p_failures = 0
    /\ success = "none"
    /\ processed = 0
    /\ failed_matches = << >>
    /\ p_outcomes = << >>

InitPass ==
    /\ append_to_existing \in BOOLEAN
    /\ playlists \in InitialPlaylists
    /\ before = playlists
    /\ p_pc = "start"
    /\ p_i = 0
    /\ matched_tracks = << >>
    /\ found = 0
    /\ total_added = 0
    /\ p_calls = << >>
    /\ p_failures = 0
    /\ success = "none"
    /\ processed = 0
    /\ failed_matches = << >>
    /\ p_outcomes = << >>
    /\ existing_mbids = << >>
    /\ \E flags \in TrackLists : new_tracks = TracksOf(flags)
    /\ c_pc = "idle"
    /\ update_strategy = NoStrategy

\* whether a remote call succeeds
RemoteOutcomes == IF p_failures < MaxRemoteFailures THEN BOOLEAN ELSE {TRUE}

Failures(ok) == IF ok THEN p_failures ELSE p_failures + 1

\* find_playlist_by_name: the first playlist with the title, None when there
\* is none or when the request fails
find_playlist_by_name(ok) ==
    IF ok /\ playlists # << >> THEN playlists[1].ratingKey ELSE 0

\* get_existing_playlist_mbids: every path returns the empty list
get_existing_playlist_mbids(listing) == << >>

\* the key the server gives a new playlist
NewKey ==
    1 + (IF playlists = << >> THEN 0
         ELSE CHOOSE k \in {playlists[i].ratingKey : i \in DOMAIN playlists} :
                \A i \in DOMAIN playlists : playlists[i].ratingKey <= k)

\* delete_playlist has been issued and answered
Without(key) == SelectSeq(playlists, LAMBDA pl : pl.ratingKey # key)

\* the PUT that adds one item to the playlist with ratingKey key
WithItem(key, item) ==
    [i \in DOMAIN playlists |->
        IF playlists[i].ratingKey = key
        THEN [playlists[i] EXCEPT !.items = Append(@, item)]
        ELSE playlists[i]]

\* create_playlist is running: the POST of this pass has been issued
InCreate == \E i \in DOMAIN p_calls : p_calls[i].op = "create"

\* (the whole list handed to add_tracks_to_playlist after the creation)
AddKeysWithSeed == matched_tracks

\* the track_rating_keys argument of add_tracks_to_playlist
AddKeys == IF InCreate THEN Tail(matched_tracks) ELSE matched_tracks

Return(ret) ==
    /\ p_pc' = "done"
    /\ success' = ret

\* (success only when every member was added)
AddedAll(added, n) == IF added = n THEN "True" ELSE "False"

\* add_tracks_to_playlist: the value returned after the loop
AddResult(added, n) == IF added > 0 THEN "True" ELSE "False"

\* create_playlist: the value returned, from whether the POST succeeded, the
\* number of remaining tracks and the playlist found after the creation
CreateResult(posted, remaining, created_playlist) ==
    IF ~posted THEN "False"
    ELSE IF remaining = 0 THEN "True"
    ELSE IF created_playlist # 0 THEN "True" ELSE "False"

\* create_playlist_from_tracks is entered
StartPass ==
    /\ p_pc = "start"
    /\ IF new_tracks = << >>
       THEN Return("False") /\ UNCHANGED p_i
       ELSE /\ p_pc' = IF append_to_existing THEN "match" ELSE "existing"
            /\ p_i' = 1
            /\ UNCHANGED success
    /\ UNCHANGED <<append_to_existing, playlists, before, matched_tracks, found,
                   total_added, p_calls, p_failures, existing_mbids, new_tracks,
                   update_strategy>>
    /\ UNCHANGED <<processed, failed_matches, p_outcomes>>
    /\ PassOnly

\* existing_mbids = get_existing_playlist_mbids(...)
GetExisting ==
    /\ p_pc = "existing"
    /\ existing_mbids' = get_existing_playlist_mbids(playlists)
    /\ p_pc' = "compare"
    /\ UNCHANGED <<append_to_existing, playlists, before, p_i, matched_tracks,
                   found, total_added, p_calls, p_failures, success, new_tracks,
                   update_strategy>>
    /\ UNCHANGED <<processed, failed_matches, p_outcomes>>
    /\ PassOnly

\* update_strategy = compare_playlists(...) and the branch on it
ChooseStrategy ==
    /\ p_pc = "compare"
    /\ update_strategy' = compare_playlists(existing_mbids, new_tracks)
    /\ IF update_strategy'.strategy = "skip"
       THEN Return("True")
       ELSE p_pc' = "match" /\ UNCHANGED success
    /\ UNCHANGED <<append_to_existing, playlists, before, p_i, matched_tracks,
                   found, total_added, p_calls, p_failures, existing_mbids,
                   new_tracks>>
    /\ UNCHANGED <<processed, failed_matches, p_outcomes>>
    /\ PassOnly

\* what resolving and searching one track gives: no name or title, no match,
\* an exception, or the ratingKey of the match
MatchOutcomes == {"noinfo", "nomatch", "error", "hit"}

\* (an exception while processing a track ends the loop)
StopOnError(o, i) == IF o = "error" THEN Len(new_tracks) + 1 ELSE i + 1

\* the index of the track the loop takes up after one with outcome o
NextTrack(o, i) == i + 1

\* one iteration of the loop over tracks_to_process
MatchTrack ==
    /\ p_pc = "match"
    /\ p_i <= Len(new_tracks)
    /\ IF new_tracks[p_i] = NoMbid
       THEN /\ p_outcomes' = Append(p_outcomes, [kind |-> "nombid", key |-> 0])
            /\ p_i' = p_i + 1
            /\ UNCHANGED <<matched_tracks, processed, failed_matches>>
       ELSE \E o \in MatchOutcomes, rating_key \in PlexKeys :
                /\ processed' = processed + 1
                /\ matched_tracks' = IF o = "hit"
                                     THEN Append(matched_tracks, rating_key)
                                     ELSE matched_tracks
                /\ failed_matches' = IF o = "nomatch"
                                     THEN Append(failed_matches, new_tracks[p_i])
                                     ELSE failed_matches
                /\ p_outcomes' = Append(p_outcomes,
                                        [kind |-> o,
                                         key |-> IF o = "hit" THEN rating_key ELSE 0])
                /\ p_i' = NextTrack(o, p_i)
    /\ UNCHANGED <<append_to_existing, playlists, before, p_pc, found,
                   total_added, p_calls, p_failures, success, existing_mbids,
                   new_tracks, update_strategy>>
    /\ PassOnly

\* (the update goes ahead whatever was matched)
AlwaysProceeds(matched) == TRUE

\* the test  if not matched_tracks  after the loop
HasMatches(matched) == matched # << >>

\* the loop has ended
MatchEnd ==
    /\ p_pc = "match"
    /\ p_i > Len(new_tracks)
    /\ IF ~HasMatches(matched_tracks)
       THEN Return("False")
       ELSE p_pc' = "find" /\ UNCHANGED success
    /\ UNCHANGED <<append_to_existing, playlists, before, p_i, matched_tracks,
                   found, total_added, p_calls, p_failures, existing_mbids,
                   new_tracks, update_strategy>>
    /\ UNCHANGED <<processed, failed_matches, p_outcomes>>
    /\ PassOnly

\* find_playlist_by_name in create_playlist_from_tracks (appending) or in
\* create_or_update_playlist
FindExisting ==
    /\ p_pc = "find"
    /\ \E ok \in RemoteOutcomes :
        /\ found' = find_playlist_by_name(ok)
        /\ p_failures' = Failures(ok)
        /\ p_pc' = IF found' = 0 THEN "create"
                   ELSE IF append_to_existing THEN "add" ELSE "delete"
    /\ p_i' = 1
    /\ total_added' = 0
    /\ UNCHANGED <<append_to_existing, playlists, before, matched_tracks,
                   p_calls, success, existing_mbids, new_tracks, update_strategy>>
    /\ UNCHANGED <<processed, failed_matches, p_outcomes>>
    /\ PassOnly

\* delete_playlist in create_or_update_playlist
DeleteExisting ==
    /\ p_pc = "delete"
    /\ \E ok \in RemoteOutcomes :
        /\ p_failures' = Failures(ok)
        /\ p_calls' = Append(p_calls, [op |-> "delete", key |-> found, ok |-> ok])
        /\ IF ok
           THEN /\ playlists' = Without(found)
                /\ p_pc' = "settle"
                /\ UNCHANGED success
           ELSE /\ Return("False")
                /\ UNCHANGED playlists
    /\ UNCHANGED <<append_to_existing, before, p_i, matched_tracks, found,
                   total_added, existing_mbids, new_tracks, update_strategy>>
    /\ UNCHANGED <<processed, failed_matches, p_outcomes>>
    /\ PassOnly

\* the time.sleep(2) after the deletion
Settle ==
    /\ p_pc = "settle"
    /\ p_pc' = "create"
    /\ UNCHANGED <<append_to_existing, playlists, before, p_i, matched_tracks,
                   found, total_added, p_calls, p_failures, success,
                   existing_mbids, new_tracks, update_strategy>>
    /\ UNCHANGED <<processed, failed_matches, p_outcomes>>
    /\ PassOnly

\* create_playlist: the test for an empty list, then the POST with the first
\* track
CreateSeed ==
    /\ p_pc = "create"
    /\ IF matched_tracks = << >>
       THEN /\ Return("False")
            /\ UNCHANGED <<p_failures, p_calls, playlists>>
       ELSE \E ok \in RemoteOutcomes :
            /\ p_failures' = Failures(ok)
            /\ p_calls' = Append(p_calls,
                                 [op |-> "create", key |-> matched_tracks[1],
                                  ok |-> ok])
            /\ playlists' = IF ok
                            THEN Append(playlists,
                                        [ratingKey |-> NewKey,
                                         items |-> <<matched_tracks[1]>>])
                            ELSE playlists
            /\ IF ok /\ Len(matched_tracks) > 1
               THEN p_pc' = "refind" /\ UNCHANGED success
               ELSE Return(CreateResult(ok, Len(matched_tracks) - 1, 0))
    /\ UNCHANGED <<append_to_existing, before, p_i, matched_tracks, found,
                   total_added, existing_mbids, new_tracks, update_strategy>>
    /\ UNCHANGED <<processed, failed_matches, p_outcomes>>
    /\ PassOnly

\* create_playlist: find_playlist_by_name after the creation
FindCreated ==
    /\ p_pc = "refind"
    /\ \E ok \in RemoteOutcomes :
        /\ p_failures' = Failures(ok)
        /\ found' = find_playlist_by_name(ok)
        /\ IF found' # 0
           THEN p_pc' = "add" /\ UNCHANGED success
           ELSE Return(CreateResult(TRUE, Len(matched_tracks) - 1, found'))
    /\ p_i' = 1
    /\ total_added' = 0
    /\ UNCHANGED <<append_to_existing, playlists, before, matched_tracks,
                   p_calls, existing_mbids, new_tracks, update_strategy>>
    /\ UNCHANGED <<processed, failed_matches, p_outcomes>>
    /\ PassOnly

\* add_tracks_to_playlist: one iteration, the PUT of one track
AddTrack ==
    /\ p_pc = "add"
    /\ p_i <= Len(AddKeys)
    /\ \E ok \in RemoteOutcomes :
        /\ p_failures' = Failures(ok)
        /\ p_calls' = Append(p_calls, [op |-> "add", key |-> AddKeys[p_i], ok |-> ok])
        /\ playlists' = IF ok THEN WithItem(found, AddKeys[p_i]) ELSE playlists
        /\ total_added' = IF ok THEN total_added + 1 ELSE total_added
    /\ p_i' = p_i + 1
    /\ UNCHANGED <<append_to_existing, before, p_pc, matched_tracks, found,
                   success, existing_mbids, new_tracks, update_strategy>>
    /\ UNCHANGED <<processed, failed_matches, p_outcomes>>
    /\ PassOnly

\* add_tracks_to_playlist returns, to create_playlist or to
\* create_playlist_from_tracks
AddReturn ==
    /\ p_pc = "add"
    /\ p_i > Len(AddKeys)
    /\ IF InCreate
       THEN Return(CreateResult(TRUE, Len(AddKeys), found))
       ELSE Return(AddResult(total_added, Len(AddKeys)))
    /\ UNCHANGED <<append_to_existing, playlists, before, p_i, matched_tracks,
                   found, total_added, p_calls, p_failures, existing_mbids,
                   new_tracks, update_strategy>>
    /\ UNCHANGED <<processed, failed_matches, p_outcomes>>
    /\ PassOnly

\* the positions at which a request to the server is in flight
RemoteCallPcs == {"find", "delete", "create", "refind", "add"}

\* the server never answers the request in flight: requests.get, post, put and
\* delete are called without a timeout and do not return
NoResponse ==
    /\ p_pc \in RemoteCallPcs
    /\ p_pc = "add" => p_i <= Len(AddKeys)
    /\ p_pc' = "blocked"
    /\ UNCHANGED <<append_to_existing, playlists, before, p_i, matched_tracks,
                   found, total_added, p_calls, p_failures, success,
                   existing_mbids, new_tracks, update_strategy>>
    /\ UNCHANGED <<processed, failed_matches, p_outcomes>>
    /\ PassOnly

NextPass ==
    \/ StartPass
    \/ GetExisting
    \/ ChooseStrategy
    \/ MatchTrack
    \/ MatchEnd
    \/ FindExisting
    \/ DeleteExisting
    \/ Settle
    \/ CreateSeed
    \/ FindCreated
    \/ AddTrack
    \/ AddReturn
    \/ NoResponse

\* ------------------------------------------------------- playlist pass claims
\* the members of the playlist find_playlist_by_name finds in listing
Membership(listing) == IF listing = << >> THEN << >> ELSE listing[1].items

\* the pass is one with smart updates that has fetched the existing members
Compared ==
    /\ ~append_to_existing
    /\ p_pc = "compare" \/ update_strategy.strategy # "none"

\* C12: a pass with smart updates, not appending, decides on the playlist's
\* actual current membership, which is empty only when the playlist does not
\* exist or has no members; so a pass against a playlist whose members
\* already are the desired members in order chooses skip and issues no
\* delete, create or add call.
C12_SkipWhenUnchanged ==
    /\ (Compared /\ existing_mbids = << >>) => Membership(before) = << >>
    /\ (Compared /\ p_pc = "done" /\ matched_tracks # << >>
          /\ Membership(before) = matched_tracks) =>
            /\ update_strategy.strategy = "skip"
            /\ p_calls = << >>

\* a pass that replaces the playlist has returned True
ReportedSuccess == p_pc = "done" /\ success = "True" /\ ~append_to_existing

\* the add calls issued, in order
AddCalls == SelectSeq(p_calls, LAMBDA c : c.op = "add")

\* C13: whenever a pass reports success, the playlist with the target name
\* contains exactly the matched ratingKeys in their input order and nothing
\* else (stated for the passes that matched at least one track).
C13_SuccessMeansExactMembers ==
    (ReportedSuccess /\ matched_tracks # << >>) =>
        /\ playlists # << >>
        /\ \A i \in DOMAIN playlists : playlists[i].items = matched_tracks

\* C14: in a rebuild the playlist is created only after the existing one with
\* the same name was deleted successfully, and nothing is created when the
\* deletion fails, so two playlists with the target name never exist at the
\* same time, whatever remote calls fail.
C14_NeverTwoWithTheName ==
    ~append_to_existing => Len(playlists) <= 1

\* C15: when the playlist was created with its seed member but cannot be
\* found by name right afterwards, create_playlist does not return False for
\* that reason.
C15_NotFoundIsWarning ==
    (/\ p_pc = "done"
     /\ p_calls # << >>
     /\ p_calls[Len(p_calls)].op = "create"
     /\ p_calls[Len(p_calls)].ok
     /\ Len(matched_tracks) > 1) => success # "False"

\* C16: in add_tracks_to_playlist a failed add is skipped and the remaining
\* members are still attempted in order; the call returns True exactly when
\* at least one member was added, and create_playlist reports success once
\* its seed member was created even when every later add failed.
C16_AddFailuresSkipped ==
    (p_pc = "done" /\ AddCalls # << >>) =>
        /\ [k \in DOMAIN AddCalls |-> AddCalls[k].key] = AddKeys
        /\ total_added = Cardinality({k \in DOMAIN AddCalls : AddCalls[k].ok})
        /\ ~InCreate => (success = "True" <=> total_added > 0)
        /\ InCreate => success = "True"

\* an add failed and a later member was still added
C16_Witness ==
    /\ p_pc = "done"
    /\ \E j, k \in DOMAIN AddCalls : j < k /\ ~AddCalls[j].ok /\ AddCalls[k].ok
    /\ success = "True"

\* C17: a pass that leaves no usable output returns False:
\* create_playlist_from_tracks when no reference resolves or no track matches
\* (also when no track carries a recording reference), add_tracks_to_playlist
\* when no member was added.
C17_ZeroOutputIsFalse ==
    p_pc = "done" =>
        /\ matched_tracks = << >> => success = "False"
        /\ (AddCalls # << >> /\ ~InCreate /\ total_added = 0) => success = "False"

\* C18: every remote call has a request-level timeout, so a pass finishes even
\* when one remote call gets no response.
C18_PassFinishes == <>(p_pc = "done")

\* the positions of the create calls in p_calls
CreateCalls == {i \in DOMAIN p_calls : p_calls[i].op = "create"}

\* C21: create_playlist for n >= 1 members issues exactly one creation call
\* carrying only the first member, then at most n - 1 add calls, one for each
\* remaining member in the order of the list, one at a time; no add call is
\* issued before the creation call has succeeded.
C21_SeedThenAddsInOrder ==
    /\ Cardinality(CreateCalls) <= 1
    /\ \A c \in CreateCalls :
        /\ p_calls[c].key = matched_tracks[1]
        /\ \A i \in DOMAIN p_calls : p_calls[i].op = "add" =>
               (c < i /\ p_calls[c].ok)
        /\ Len(AddCalls) <= Len(matched_tracks) - 1
        /\ \A k \in DOMAIN AddCalls : AddCalls[k].key = matched_tracks[k + 1]
        /\ (p_pc = "done" /\ AddCalls # << >>) =>
               Len(AddCalls) = Len(matched_tracks) - 1

\* a playlist of three members was created: one creation call, two add calls
C21_Witness ==
    /\ p_pc = "done"
    /\ Cardinality(CreateCalls) = 1
    /\ Len(matched_tracks) = 3
    /\ Len(AddCalls) = 2

\* the matching loop has ended
MatchingOver ==
    /\ p_outcomes # << >>
    /\ p_pc \notin {"idle", "start", "existing", "compare", "match"}

\* the ratingKeys of the tracks the loop matched, in order
Hits ==
    LET h == SelectSeq(p_outcomes, LAMBDA o : o.kind = "hit")
    IN  [k \in DOMAIN h |-> h[k].key]

\* C22: in the matching loop a failed or null resolution, or an exception
\* while processing one track, never stops the loop: every later track is
\* still taken up, and the tracks matched before and after the failure are all
\* in the final member list.
C22_LoopSurvivesFailures ==
    MatchingOver =>
        /\ Len(p_outcomes) = Len(new_tracks)
        /\ matched_tracks = Hits

\* a track matched, the next raised or did not resolve, the third matched
C22_Witness ==
    /\ MatchingOver
    /\ \E i, j, k \in DOMAIN p_outcomes :
        /\ i < j /\ j < k
        /\ p_outcomes[i].kind = "hit"
        /\ p_outcomes[j].kind \in {"noinfo", "error"}
        /\ p_outcomes[k].kind = "hit"
    /\ Len(matched_tracks) = 2

\* C23: at the end of the matching stage the counts account for every
\* attempted item: attempted = matched + reported as failed, so an item whose
\* resolution failed or whose processing raised is among the failed items.
C23_CountsAddUp ==
    MatchingOver => processed = Len(matched_tracks) + Len(failed_matches)

\* C25: a pass that fails leaves the existing playlist in place: if
\* create_or_update_playlist returns False, the playlist that existed under
\* the name before the pass still exists with its members.
C25_FailureKeepsExisting ==
    (/\ p_pc = "done"
     /\ success = "False"
     /\ ~append_to_existing
     /\ before # << >>) =>
        \E i \in DOMAIN playlists : playlists[i] = before[1]

\* C26: when no track matches, create_playlist_from_tracks issues no delete,
\* create or add call: matching is completed before the first remote
\* mutation, and an existing playlist is untouched when the pass returns False
\* for lack of matches.
C26_NoMatchNoMutation ==
    /\ p_pc \in {"start", "existing", "compare", "match"} =>
           (p_calls = << >> /\ playlists = before)
    /\ matched_tracks = << >> => (p_calls = << >> /\ playlists = before)
    /\ (p_pc = "done" /\ MatchingOver /\ matched_tracks = << >>) =>
           success = "False"

\* a pass against an existing playlist ended without a match
C26_Witness ==
    /\ p_pc = "done"
    /\ processed > 0
    /\ matched_tracks = << >>
    /\ before # << >>
    /\ playlists = before
    /\ success = "False"

\* ------------------------------------------------------------------ served data
\* The globals of main.py that LibraryHandler serves, the threads of daemon
\* mode that replace them and the request handler (HTTPServer handles one
\* request at a time).  Positions of a thread:
\*   wait_initial  the loop  while not initial_processing_complete
\*   interval      time.sleep(update_interval)
\*   fetch         process_listenbrainz_data up to the end of its loop
\*   lock          waiting for data_lock
\*   clear, update, stamp, stamp_lidarr, unlock   the block under data_lock
\*   save          the write of lidarr_custom_list.json
\*   returned      process_listenbrainz_data has returned
\*   playlists     create_all_playlists is running
\*   plex_lock, plex_stamp, plex_unlock   the block of create_plex_playlists
\*   flag          initial_processing_task sets initial_processing_complete
\*   finished      the thread has returned
\* and of the handler: idle, test (GET / looks at the flag), lock, values,
\* len, last_updated, lidarr_last_updated, plex_last_updated, release.
NoArtist == 0

ArtistIds == 1..MaxArtists

\* batch_results: the artist_mbid of each entry, 0 for None, in dict order
BatchResults == UNION {[1..k -> {NoArtist} \cup ArtistIds] : k \in 0..MaxResults}

RECURSIVE SeenFrom(_, _, _)
\* the loop over batch_results.items() from entry k on
SeenFrom(batch, k, acc) ==
    IF k > Len(batch)
    THEN acc
    ELSE SeenFrom(batch, k + 1,
                  IF batch[k] # NoArtist /\ batch[k] \notin Range(acc)
                  THEN Append(acc, batch[k])
                  ELSE acc)

seen_artists_of(batch) == SeenFrom(batch, 1, << >>)

\* dict.update: keys already present keep their place, new keys are appended
DictUpdate(d, other) == d \o SelectSeq(other, LAMBDA k : k \notin Range(d))

\* what a reader holding data_lock can read of the Lidarr data
Snapshot ==
    [artists |-> artist_data, last_updated |-> last_updated,
     lidarr_last_updated |-> lidarr_last_updated]

NoSnapshot == [artists |-> << >>, last_updated |-> 0, lidarr_last_updated |-> 0]

NoReply ==
    [path |-> "none", status |-> "none", artists |-> << >>, count |-> 0,
     last_updated |-> 0, lidarr_last_updated |-> 0, plex_last_updated |-> 0,
     complete |-> FALSE]

IdleServe ==
    /\ artist_data = << >>
    /\ last_updated = 0
    /\ lidarr_last_updated = 0
    /\ plex_last_updated = 0
    /\ data_lock = "none"
    /\ u_pc = [t \in Threads |-> "idle"]
    /\ seen_artists = << >>
    /\ u_ret = [t \in Threads |-> "none"]
    /\ at_call = NoSnapshot
    /\ committed = NoSnapshot
    /\ calls = 0
    /\ h_pc = "idle"
    /\ response = NoReply

\* run_daemon_mode has started the HTTP server and the three threads
InitServe ==
    /\ plex_configured \in BOOLEAN
    /\ initial_processing_complete = FALSE
    /\ d_pc = [t \in Threads |-> "idle"]
    /\ d_job = [t \in Threads |-> "none"]
    /\ d_left = [t \in Threads |-> 0]
    /\ d_result = [t \in Threads |-> "none"]
    /\ artist_data = << >>
    /\ last_updated = 0
    /\ lidarr_last_updated = 0
    /\ plex_last_updated = 0
    /\ data_lock = "none"
    /\ u_pc = [t \in Threads |-> IF t = "initial" THEN "fetch" ELSE "wait_initial"]
    /\ seen_artists = << >>
    /\ u_ret = [t \in Threads |-> "none"]
    /\ at_call = NoSnapshot
    /\ committed = NoSnapshot
    /\ calls = 1
    /\ h_pc = "idle"
    /\ response = NoReply

Goto(t, pos) == u_pc' = [u_pc EXCEPT ![t] = pos]

Returns(t, ret) == u_ret' = [u_ret EXCEPT ![t] = ret]

FetchOutcomes == {"nouser", "norecs", "raised", "ok"}

\* process_listenbrainz_data up to the lock: the early returns, the except
\* clause, or seen_artists built from the results of the resolution
FetchRecommendations(t) ==
    /\ u_pc[t] = "fetch"
    /\ \E o \in FetchOutcomes, batch_results \in BatchResults :
        IF o = "ok"
        THEN /\ seen_artists' = seen_artists_of(batch_results)
             /\ Goto(t, "lock")
             /\ UNCHANGED u_ret
        ELSE /\ Goto(t, "returned")
             /\ Returns(t, "False")
             /\ UNCHANGED seen_artists
    /\ UNCHANGED <<artist_data, last_updated, lidarr_last_updated,
                   plex_last_updated, data_lock, at_call, committed, calls, h_pc, response, initial_processing_complete>>
    /\ ServeOnly

\* with data_lock:
AcquireLock(t) ==
    /\ u_pc[t] \in {"lock", "plex_lock"}
    /\ data_lock = "none"
    /\ data_lock' = t
    /\ Goto(t, IF u_pc[t] = "lock" THEN "clear" ELSE "plex_stamp")
    /\ UNCHANGED <<artist_data, last_updated, lidarr_last_updated,
                   plex_last_updated, seen_artists, u_ret, at_call, committed,
                   calls, h_pc, response, initial_processing_complete>>
    /\ ServeOnly

\* artist_data.clear()
Clear(t) ==
    /\ u_pc[t] = "clear"
    /\ artist_data' = << >>
    /\ Goto(t, "update")
    /\ UNCHANGED <<last_updated, lidarr_last_updated, plex_last_updated,
                   data_lock, seen_artists, u_ret, at_call, committed, calls, h_pc, response, initial_processing_complete>>
    /\ ServeOnly

\* artist_data.update(seen_artists)
Update(t) ==
    /\ u_pc[t] = "update"
    /\ artist_data' = DictUpdate(artist_data, seen_artists)
    /\ Goto(t, "stamp")
    /\ UNCHANGED <<last_updated, lidarr_last_updated, plex_last_updated,
                   data_lock, seen_artists, u_ret, at_call, committed, calls, h_pc, response, initial_processing_complete>>
    /\ ServeOnly

\* last_updated = datetime.now()
StampLastUpdated(t) ==
    /\ u_pc[t] = "stamp"
    /\ last_updated' = calls
    /\ Goto(t, "stamp_lidarr")
    /\ UNCHANGED <<artist_data, lidarr_last_updated, plex_last_updated,
                   data_lock, seen_artists, u_ret, at_call, committed, calls, h_pc, response, initial_processing_complete>>
    /\ ServeOnly

\* lidarr_last_updated = datetime.now()
StampLidarr(t) ==
    /\ u_pc[t] = "stamp_lidarr"
    /\ lidarr_last_updated' = calls
    /\ Goto(t, "unlock")
    /\ UNCHANGED <<artist_data, last_updated, plex_last_updated, data_lock,
                   seen_artists, u_ret, at_call, committed, calls,
                   h_pc, response, initial_processing_complete>>
    /\ ServeOnly

\* where a thread goes on after create_plex_playlists
AfterPlaylists(t) == IF t = "initial" THEN "flag" ELSE "interval"

\* the end of a with data_lock block of a thread
ReleaseLock(t) ==
    /\ u_pc[t] \in {"unlock", "plex_unlock"}
    /\ data_lock' = "none"
    /\ committed' = Snapshot
    /\ IF u_pc[t] = "unlock"
       THEN Goto(t, "save")
       ELSE Goto(t, AfterPlaylists(t))
    /\ UNCHANGED <<artist_data, last_updated, lidarr_last_updated,
                   plex_last_updated, seen_artists, u_ret, at_call, calls,
                   h_pc, response, initial_processing_complete>>
    /\ ServeOnly

\* the write of /app/data/lidarr_custom_list.json: done, or an exception
\* that the except clause of process_listenbrainz_data turns into False
SaveFile(t) ==
    /\ u_pc[t] = "save"
    /\ \E written \in BOOLEAN : Returns(t, IF written THEN "True" ELSE "False")
    /\ Goto(t, "returned")
    /\ UNCHANGED <<artist_data, last_updated, lidarr_last_updated,
                   plex_last_updated, data_lock, seen_artists, at_call,
                   committed, calls, h_pc, response,
                   initial_processing_complete>>
    /\ ServeOnly

\* the caller goes on: initial_processing_task whatever was returned, the
\* updater into its sleep
ProcessReturns(t) ==
    /\ u_pc[t] = "returned"
    /\ IF t = "initial"
       THEN Goto(t, IF plex_configured THEN "playlists" ELSE "flag")
       ELSE Goto(t, "interval")
    /\ UNCHANGED <<artist_data, last_updated, lidarr_last_updated,
                   plex_last_updated, data_lock, seen_artists, u_ret, at_call,
                   committed, calls, h_pc, response, initial_processing_complete>>
    /\ ServeOnly

\* create_plex_playlists: create_all_playlists succeeds, fails or raises;
\* both callers discard what it returns
CreatePlaylists(t) ==
    /\ u_pc[t] = "playlists"
    /\ \E created \in BOOLEAN :
        Goto(t, IF created THEN "plex_lock" ELSE AfterPlaylists(t))
    /\ UNCHANGED <<artist_data, last_updated, lidarr_last_updated,
                   plex_last_updated, data_lock, seen_artists, u_ret, at_call,
                   committed, calls, h_pc, response,
                   initial_processing_complete>>
    /\ ServeOnly

\* plex_last_updated = datetime.now()
StampPlex(t) ==
    /\ u_pc[t] = "plex_stamp"
    /\ plex_last_updated' = 1
    /\ Goto(t, "plex_unlock")
    /\ UNCHANGED <<artist_data, last_updated, lidarr_last_updated, data_lock,
                   seen_artists, u_ret, at_call, committed, calls,
                   h_pc, response, initial_processing_complete>>
    /\ ServeOnly

\* initial_processing_task: initial_processing_complete = True
SetComplete(t) ==
    /\ u_pc[t] = "flag"
    /\ initial_processing_complete' = TRUE
    /\ Goto(t, "finished")
    /\ UNCHANGED <<artist_data, last_updated, lidarr_last_updated,
                   plex_last_updated, data_lock, seen_artists, u_ret, at_call,
                   committed, calls, h_pc, response>>
    /\ ServeOnly

\* lidarr_update_task / plex_update_task: the wait for initial processing
UpdaterWaits(t) ==
    /\ u_pc[t] = "wait_initial"
    /\ initial_processing_complete
    /\ Goto(t, "interval")
    /\ UNCHANGED <<artist_data, last_updated, lidarr_last_updated,
                   plex_last_updated, data_lock, seen_artists, u_ret, at_call,
                   committed, calls, h_pc, response,
                   initial_processing_complete>>
    /\ ServeOnly

\* the interval has elapsed: the scheduled call begins (without Plex
\* configured create_plex_playlists returns at once and changes nothing)
UpdaterRuns(t) ==
    /\ u_pc[t] = "interval"
    /\ IF t = "lidarr"
       THEN /\ calls < MaxCalls
            /\ calls' = calls + 1
            /\ at_call' = Snapshot
            /\ Goto(t, "fetch")
       ELSE /\ plex_configured
            /\ Goto(t, "playlists")
            /\ UNCHANGED <<calls, at_call>>
    /\ UNCHANGED <<artist_data, last_updated, lidarr_last_updated,
                   plex_last_updated, data_lock, seen_artists, u_ret, committed,
                   h_pc, response, initial_processing_complete>>
    /\ ServeOnly

Paths == {"/", "/health", "/other"}

\* do_GET: a request arrives
Request ==
    /\ h_pc = "idle"
    /\ \E path \in Paths :
        /\ response' = [NoReply EXCEPT !.path = path,
                                       !.status = IF path = "/other" THEN "404" ELSE "none"]
        /\ h_pc' = IF path = "/" THEN "test" ELSE IF path = "/health" THEN "lock" ELSE "idle"
    /\ UNCHANGED <<artist_data, last_updated, lidarr_last_updated,
                   plex_last_updated, data_lock, u_pc, seen_artists, u_ret,
                   at_call, committed, calls,
                   initial_processing_complete>>
    /\ ServeOnly

\* (GET / never answers that initial processing is under way)
NeverProcessing == FALSE

\* do_GET, path /: if not initial_processing_complete
StillProcessing == ~initial_processing_complete

\* GET /: the literal reply during initial processing, or on to the lock
RootTest ==
    /\ h_pc = "test"
    /\ IF StillProcessing
       THEN /\ response' = [response EXCEPT !.status = "initial_processing"]
            /\ h_pc' = "idle"
       ELSE /\ h_pc' = "lock"
            /\ UNCHANGED response
    /\ UNCHANGED <<artist_data, last_updated, lidarr_last_updated,
                   plex_last_updated, data_lock, u_pc, seen_artists, u_ret,
                   at_call, committed, calls,
                   initial_processing_complete>>
    /\ ServeOnly

\* (the handler does not wait for the lock)
HandlerEntersAnyway == TRUE

\* with data_lock: in do_GET
HandlerMayEnter == data_lock = "none"

\* the handler takes the lock; GET /health reads the flag first
HandlerAcquire ==
    /\ h_pc = "lock"
    /\ HandlerMayEnter
    /\ data_lock' = "http"
    /\ IF response.path = "/"
       THEN h_pc' = "values" /\ UNCHANGED response
       ELSE /\ h_pc' = "len"
            /\ response' = [response EXCEPT !.complete = initial_processing_complete]
    /\ UNCHANGED <<artist_data, last_updated, lidarr_last_updated,
                   plex_last_updated, u_pc, seen_artists, u_ret, at_call,
                   committed, calls, initial_processing_complete>>
    /\ ServeOnly

\* one read of the reply under the lock
HandlerReads ==
    /\ h_pc \in {"values", "len", "last_updated", "lidarr_last_updated",
                 "plex_last_updated"}
    /\ CASE h_pc = "values" ->
              /\ response' = [response EXCEPT !.artists = artist_data]
              /\ h_pc' = "len"
         [] h_pc = "len" ->
              /\ response' = [response EXCEPT !.count = Len(artist_data)]
              /\ h_pc' = "last_updated"
         [] h_pc = "last_updated" ->
              /\ response' = [response EXCEPT !.last_updated = last_updated]
              /\ h_pc' = "lidarr_last_updated"
         [] h_pc = "lidarr_last_updated" ->
              /\ response' = [response EXCEPT !.lidarr_last_updated = lidarr_last_updated]
              /\ h_pc' = IF response.path = "/" THEN "release" ELSE "plex_last_updated"
         [] h_pc = "plex_last_updated" ->
              /\ response' = [response EXCEPT !.plex_last_updated = plex_last_updated]
              /\ h_pc' = "release"
    /\ UNCHANGED <<artist_data, last_updated, lidarr_last_updated,
                   plex_last_updated, data_lock, u_pc, seen_artists, u_ret,
                   at_call, committed, calls,
                   initial_processing_complete>>
    /\ ServeOnly

\* the end of the with block: the reply is written
HandlerRelease ==
    /\ h_pc = "release"
    /\ data_lock' = "none"
    /\ response' = [response EXCEPT !.status = IF response.path = "/" THEN "ok" ELSE "healthy"]
    /\ h_pc' = "idle"
    /\ UNCHANGED <<artist_data, last_updated, lidarr_last_updated,
                   plex_last_updated, u_pc, seen_artists, u_ret, at_call,
                   committed, calls, initial_processing_complete>>
    /\ ServeOnly

NextServe ==
    \/ \E t \in Threads : FetchRecommendations(t)
    \/ \E t \in Threads : AcquireLock(t)
    \/ \E t \in Threads : Clear(t)
    \/ \E t \in Threads : Update(t)
    \/ \E t \in Threads : StampLastUpdated(t)
    \/ \E t \in Threads : StampLidarr(t)
    \/ \E t \in Threads : ReleaseLock(t)
    \/ \E t \in Threads : SaveFile(t)
    \/ \E t \in Threads : ProcessReturns(t)
    \/ \E t \in Threads : CreatePlaylists(t)
    \/ \E t \in Threads : StampPlex(t)
    \/ \E t \in Threads : SetComplete(t)
    \/ \E t \in Threads : UpdaterWaits(t)
    \/ \E t \in Threads : UpdaterRuns(t)
    \/ Request
    \/ RootTest
    \/ HandlerAcquire
    \/ HandlerReads
    \/ HandlerRelease

\* ----------------------------------------------------------- served data claims
\* the fields of the reply the handler has read so far
FieldsRead ==
    CASE h_pc = "len" -> IF response.path = "/" THEN {"artists"} ELSE {}
      [] h_pc = "last_updated" -> {"artists", "count"}
      [] h_pc = "lidarr_last_updated" -> {"artists", "count", "last_updated"}
      [] h_pc \in {"plex_last_updated", "release"} ->
           {"artists", "count", "last_updated", "lidarr_last_updated"}
      [] OTHER -> {}

\* what the field of a reply is when read from the snapshot snap
FieldOf(snap, field) ==
    CASE field = "artists" -> IF response.path = "/" THEN snap.artists ELSE << >>
      [] field = "count" -> Len(snap.artists)
      [] field = "last_updated" -> snap.last_updated
      [] field = "lidarr_last_updated" -> snap.lidarr_last_updated

NoDuplicates(list) ==
    \A i, j \in DOMAIN list : list[i] = list[j] => i = j

\* C28: the served artist list is replaced atomically: what a GET / or a
\* GET /health handler reads is, field for field, the data as the last
\* completed update left it (the complete previous set while an update is
\* under way, the complete new one after it), never the cleared or half
\* stamped data in between; and in every state artist_data holds each artist
\* identifier at most once and no null identifier.
C28_AtomicReplacement ==
    /\ \A field \in FieldsRead : response[field] = FieldOf(committed, field)
    /\ NoDuplicates(artist_data)
    /\ NoArtist \notin Range(artist_data)

\* a handler has read the previous artists while an update that will replace
\* them with other artists waits for the lock
C28_Witness ==
    /\ h_pc = "release"
    /\ response.path = "/"
    /\ response.artists # << >>
    /\ \E t \in Threads : u_pc[t] = "lock"
    /\ seen_artists # response.artists

\* C29: when process_listenbrainz_data returns False, the artist data served
\* over HTTP and its last-updated timestamps are unchanged from before the
\* call.
C29_FalseLeavesDataAlone ==
    \A t \in Threads :
        (u_pc[t] = "returned" /\ u_ret[t] = "False") => Snapshot = at_call

\* C30: in daemon mode neither scheduled update task performs an update
\* before initial processing has completed; until then GET / answers with an
\* empty artist list and the status initial_processing; and the flag is set
\* on every path through initial_processing_task that returns, whatever the
\* Lidarr processing and the playlist creation returned.
C30_NothingBeforeInitialProcessing ==
    /\ ~initial_processing_complete =>
          /\ \A t \in Updaters : u_pc[t] = "wait_initial"
          /\ (response.path = "/" /\ h_pc = "idle") =>
                 /\ response.status = "initial_processing"
                 /\ response.artists = << >>
                 /\ response.count = 0
          /\ response.path = "/" => h_pc \in {"idle", "test"}
    /\ u_pc["initial"] = "finished" => initial_processing_complete

\* initial processing failed, the flag is set all the same, the Lidarr
\* updater is replacing the data, and the last GET / was answered before
C30_Witness ==
    /\ u_pc["initial"] = "finished"
    /\ u_ret["initial"] = "False"
    /\ initial_processing_complete
    /\ u_pc["lidarr"] = "update"
    /\ response.path = "/"
    /\ response.status = "initial_processing"

IdleResolver ==
    /\ LOCAL_MB_MIRROR = FALSE
    /\ entry = "idle"
    /\ recording_mbids = << >>
    /\ batch_size = DefaultBatchSize
    /\ results = << >>
    /\ r_pc = "idle"
    /\ r_i = 0
    /\ reqs = 0
    /\ lastGap = 0
    /\ slept = 0
    /\ sleeps = 0
    /\ outcome = << >>

\* ------------------------------------------------------------- specifications
Init ==
    /\ InitResolver /\ IdleScore /\ IdleSearch /\ IdleDaemon /\ IdleCompare
    /\ IdlePass /\ IdleServe

Next == NextResolver

\* the resolver: get_artist_info_smart and get_artist_info_batch
Spec == Init /\ [][Next]_vars

\* the scoring function on bounded strings
StartScore ==
    /\ InitScore /\ IdleResolver /\ IdleSearch /\ IdleDaemon /\ IdleCompare
    /\ IdlePass /\ IdleServe

SpecScore == StartScore /\ [][NextScore]_vars

\* search_for_track against a server holding the tracks of Library
StartSearch ==
    /\ InitSearch /\ IdleResolver /\ IdleDaemon /\ IdleCompare /\ IdlePass
    /\ IdleServe

SpecSearch == StartSearch /\ [][NextSearch]_vars

\* the threads of daemon mode
StartDaemon ==
    /\ InitDaemon /\ IdleScore /\ IdleSearch /\ IdleCompare /\ IdlePass
    /\ IdleServe

SpecDaemon == StartDaemon /\ [][NextDaemon]_vars

\* compare_playlists on bounded lists
StartCompare ==
    /\ InitCompare /\ IdleResolver /\ IdleScore /\ IdleSearch /\ IdleDaemon
    /\ IdlePass /\ IdleServe

SpecCompare == StartCompare /\ [][NextCompare]_vars

\* one pass of create_playlist_from_tracks against a Plex server
StartPlaylist ==
    /\ InitPass /\ IdleResolver /\ IdleScore /\ IdleSearch /\ IdleDaemon
    /\ IdleServe

SpecPlaylist == StartPlaylist /\ [][NextPass]_vars

\* the same, every step that can be taken being taken eventually
FairPlaylist == SpecPlaylist /\ WF_vars(NextPass)

\* the threads of daemon mode and the request handler on the served data
StartServe ==
    /\ InitServe /\ IdleResolver /\ IdleScore /\ IdleSearch /\ IdleCompare
    /\ IdlePass

SpecServe == StartServe /\ [][NextServe]_vars

====
